---- MODULE Spec2Model ----
(***************************************************************************)
(* dirsync.py: a one-way mirror of a source directory tree onto a          *)
(* destination tree.  The model follows                                    *)
(*   dirsync/entity/core/repository/local/localdirrepo.py                  *)
(*   dirsync/entity/core/file/local/localfile.py                           *)
(*   dirsync/infra/execute.py                                              *)
(* A repository is the pair of indices filepath_file_map / hash_file_map   *)
(* over LocalFile objects; LocalFile objects are mutable and compared by   *)
(* identity, so they live in a heap (files) and the indices hold ids.      *)
(***************************************************************************)
EXTENDS Integers, Sequences, FiniteSets, TLC

(***************************************************************************)
(* Universe of the model                                                   *)
(***************************************************************************)
\* relative paths of the two trees: two files in the root, one in directory d
Paths == {"a", "b", "d/c"}
\* byte strings a file can hold
Contents == {"x", "y"}
\* the value of a path that holds no regular file
NoFile == "nofile"
\* number of external source-side changes in one sleep of the loop
MaxEnvSteps == 2
\* number of cycles of the loop that are followed
MaxCycles == 3

\* directory part of a relative path ("" is the repository root)
Dir(p) == IF p = "d/c" THEN "d" ELSE ""
Dirs == {Dir(p) : p \in Paths} \ {""}

\* a directory that holds no file of Paths: a sub-directory of d
NestedDirs == {"d/e"}
\* the directory a directory lies in ("" is the repository root)
ParentDir(d) == IF d \in NestedDirs THEN "d" ELSE ""

\* str.split(' ') of a relative path
Words(p) == <<p>>

(***************************************************************************)
(* Python containers                                                       *)
(***************************************************************************)
\* dict with insertion order: a sequence of [key, val]
Keys(m) == {m[i].key : i \in 1..Len(m)}
GetItem(m, k) == m[CHOOSE i \in 1..Len(m) : m[i].key = k].val
SetItem(m, k, v) ==
  IF k \in Keys(m)
  THEN [i \in 1..Len(m) |-> IF m[i].key = k THEN [key |-> k, val |-> v] ELSE m[i]]
  ELSE Append(m, [key |-> k, val |-> v])
DelItem(m, k) == SelectSeq(m, LAMBDA e : e.key # k)

\* dict whose order is never read: a function
Put(f, k, v) == [x \in DOMAIN f \cup {k} |-> IF x = k THEN v ELSE f[x]]

\* list membership and list.remove (first occurrence)
InList(l, x) == \E i \in 1..Len(l) : l[i] = x
ListRemove(l, x) ==
  LET i == CHOOSE j \in 1..Len(l) : l[j] = x /\ \A k \in 1..(j - 1) : l[k] # x
  IN SubSeq(l, 1, i - 1) \o SubSeq(l, i + 1, Len(l))

(***************************************************************************)
(* The filesystem: a tree is [files : Paths -> Contents \cup {NoFile},     *)
(* dirs : the sub-directories that exist]                                  *)
(***************************************************************************)
IsFile(tree, p) == tree.files[p] # NoFile
DirExists(tree, d) == d = "" \/ d \in tree.dirs
MakeDirs(tree, d) == IF DirExists(tree, d) THEN tree ELSE [tree EXCEPT !.dirs = @ \cup {d}]
WriteFile(tree, p, content) == [tree EXCEPT !.files[p] = content]
RemoveFile(tree, p) == [tree EXCEPT !.files[p] = NoFile]
EmptyTree == [files |-> [p \in Paths |-> NoFile], dirs |-> {}]

(***************************************************************************)
(* LocalFile                                                               *)
(***************************************************************************)
\* hashlib.blake2b(...).hexdigest(): injective on the contents of the model
Blake2b(content) == <<"blake2b", content>>

\* LocalFile.calculate_blake2b_hash of the file at p (the caller checks IsFile)
calculate_blake2b_hash(tree, p) == Blake2b(tree.files[p])

\* LocalFile.read: the bytes at the file's abs_path
read(tree, p) == tree.files[p]

(***************************************************************************)
(* LocalDirectoryRepository                                                *)
(***************************************************************************)
\* LocalDirectoryRepository.__init__
NewRepository ==
  [filepath_file_map |-> <<>>,
   hash_file_map |-> <<>>,
   files |-> <<>>,
   last_action |-> "INIT"]

\* the LocalFile objects some index still refers to
Referenced(R) ==
  {R.filepath_file_map[i].val : i \in 1..Len(R.filepath_file_map)}
    \cup UNION {{R.hash_file_map[h][i] : i \in 1..Len(R.hash_file_map[h])} : h \in DOMAIN R.hash_file_map}

\* an object no index refers to is garbage
Collect(R) == [R EXCEPT !.files = [id \in DOMAIN R.files \cap Referenced(R) |-> R.files[id]]]

\* identity of a freshly constructed LocalFile
NewId(R) == CHOOSE n \in 1..(Cardinality(DOMAIN R.files) + 1) : n \notin DOMAIN R.files

\* result of a call: the repository, the tree, and the exception raised ("" if none)
Result(R, tree, err) == [repo |-> Collect(R), tree |-> tree, err |-> err]

\* LocalDirectoryRepository.get_file_at_path: the tag is set before the lookup
get_file_at_path(R, rel_path) ==
  [repo |-> [R EXCEPT !.last_action = "GET"],
   err |-> IF rel_path \in Keys(R.filepath_file_map) THEN "" ELSE "KeyError",
   file |-> IF rel_path \in Keys(R.filepath_file_map)
            THEN GetItem(R.filepath_file_map, rel_path) ELSE 0]

\* LocalDirectoryRepository.get_file_with_hash: returns the bucket itself
get_file_with_hash(R, file_hash) ==
  [repo |-> [R EXCEPT !.last_action = "GET"],
   err |-> IF file_hash \in DOMAIN R.hash_file_map THEN "" ELSE "KeyError",
   files |-> IF file_hash \in DOMAIN R.hash_file_map THEN R.hash_file_map[file_hash] ELSE <<>>]

\* create_file that writes the file and leaves filepath_file_map alone
create_file_unindexed(R, tree, rel_path, content) ==
  LET t1 == WriteFile(MakeDirs(tree, Dir(rel_path)), rel_path, content)
      file_obj == NewId(R)
      last_hash == calculate_blake2b_hash(t1, rel_path)
  IN Result([R EXCEPT !.files = Put(@, file_obj, [rel_path |-> rel_path, last_hash |-> last_hash]),
                      !.hash_file_map = Put(@, last_hash, <<file_obj>>),
                      !.last_action = "CREATE"],
            t1, "")

\* LocalDirectoryRepository.create_file
create_file(R, tree, rel_path, content) ==
  LET t1 == WriteFile(MakeDirs(tree, Dir(rel_path)), rel_path, content)
      file_obj == NewId(R)
      last_hash == calculate_blake2b_hash(t1, rel_path)
  IN Result([R EXCEPT !.files = Put(@, file_obj, [rel_path |-> rel_path, last_hash |-> last_hash]),
                      !.filepath_file_map = SetItem(@, rel_path, file_obj),
                      !.hash_file_map = Put(@, last_hash, <<file_obj>>),
                      !.last_action = "CREATE"],
            t1, "")

\* LocalDirectoryRepository.modify_file
modify_file(R, tree, rel_path, content) ==
  IF rel_path \notin Keys(R.filepath_file_map) THEN Result(R, tree, "KeyError") ELSE
  LET file_obj == GetItem(R.filepath_file_map, rel_path)
      old_hash == R.files[file_obj].last_hash
  IN
  IF ~DirExists(tree, Dir(rel_path)) THEN Result(R, tree, "FileNotFoundError") ELSE
  LET t1 == WriteFile(tree, rel_path, content) IN
  IF old_hash \notin DOMAIN R.hash_file_map THEN Result(R, t1, "KeyError") ELSE
  IF ~InList(R.hash_file_map[old_hash], file_obj) THEN Result(R, t1, "ValueError") ELSE
  LET R1 == [R EXCEPT !.hash_file_map[old_hash] = ListRemove(@, file_obj)] IN
  IF ~IsFile(t1, R.files[file_obj].rel_path) THEN Result(R1, t1, "FileNotFoundError") ELSE
  LET new_hash == calculate_blake2b_hash(t1, R.files[file_obj].rel_path)
  IN Result([R1 EXCEPT !.files[file_obj].last_hash = new_hash,
                       !.hash_file_map = Put(@, new_hash, <<file_obj>>),
                       !.last_action = "MODIFY"],
            t1, "")

\* shutil.move of one regular file (os.rename onto itself changes nothing)
ShutilMove(tree, from, to) ==
  IF from = to THEN tree
  ELSE [tree EXCEPT !.files = [@ EXCEPT ![to] = tree.files[from], ![from] = NoFile]]

\* LocalDirectoryRepository.move_file
move_file(R, tree, src_hash, dest_rel_path) ==
  IF src_hash \notin DOMAIN R.hash_file_map THEN Result(R, tree, "KeyError") ELSE
  IF R.hash_file_map[src_hash] = <<>> THEN Result(R, tree, "IndexError") ELSE
  LET file_obj == R.hash_file_map[src_hash][1]
      src_rel_path == R.files[file_obj].rel_path
      t1 == MakeDirs(tree, Dir(dest_rel_path))
  IN
  IF ~IsFile(t1, src_rel_path) THEN Result(R, t1, "FileNotFoundError") ELSE
  LET t2 == ShutilMove(t1, src_rel_path, dest_rel_path)
      R1 == [R EXCEPT !.files[file_obj].rel_path = dest_rel_path]
  IN
  IF src_rel_path \notin Keys(R.filepath_file_map) THEN Result(R1, t2, "KeyError") ELSE
  Result([R1 EXCEPT !.filepath_file_map = SetItem(DelItem(@, src_rel_path), dest_rel_path, file_obj),
                    !.last_action = "MOVE"],
         t2, "")

\* LocalDirectoryRepository.copy_file
copy_file(R, tree, src_hash, dest_rel_path) ==
  IF src_hash \notin DOMAIN R.hash_file_map THEN Result(R, tree, "KeyError") ELSE
  IF R.hash_file_map[src_hash] = <<>> THEN Result(R, tree, "IndexError") ELSE
  LET src_file_obj == R.hash_file_map[src_hash][1]
      src_rel_path == R.files[src_file_obj].rel_path
      t1 == MakeDirs(tree, Dir(dest_rel_path))
  IN
  IF ~IsFile(t1, src_rel_path) THEN Result(R, t1, "FileNotFoundError") ELSE
  IF src_rel_path = dest_rel_path THEN Result(R, t1, "SameFileError") ELSE
  LET t2 == WriteFile(t1, dest_rel_path, t1.files[src_rel_path])
      dest_file_obj == NewId(R)
      last_hash == calculate_blake2b_hash(t2, dest_rel_path)
      R1 == [R EXCEPT !.files = Put(@, dest_file_obj, [rel_path |-> dest_rel_path, last_hash |-> last_hash]),
                      !.filepath_file_map = SetItem(@, dest_rel_path, dest_file_obj)]
  IN
  IF last_hash \notin DOMAIN R1.hash_file_map THEN Result(R1, t2, "KeyError") ELSE
  Result([R1 EXCEPT !.hash_file_map[last_hash] = Append(@, dest_file_obj),
                    !.last_action = "COPY"],
         t2, "")

\* LocalDirectoryRepository.delete_file
delete_file(R, tree, rel_path) ==
  IF rel_path \notin Keys(R.filepath_file_map) THEN Result(R, tree, "KeyError") ELSE
  LET file_obj == GetItem(R.filepath_file_map, rel_path)
      file_hash == R.files[file_obj].last_hash
  IN
  IF ~IsFile(tree, R.files[file_obj].rel_path) THEN Result(R, tree, "FileNotFoundError") ELSE
  LET t1 == RemoveFile(tree, R.files[file_obj].rel_path)
      R1 == [R EXCEPT !.filepath_file_map = DelItem(@, rel_path)]
  IN
  IF file_hash \notin DOMAIN R1.hash_file_map THEN Result(R1, t1, "KeyError") ELSE
  IF ~InList(R1.hash_file_map[file_hash], file_obj) THEN Result(R1, t1, "ValueError") ELSE
  Result([R1 EXCEPT !.hash_file_map[file_hash] = ListRemove(@, file_obj),
                    !.last_action = "DELETE"],
         t1, "")

\* LocalDirectoryRepository.prune: empty directories first, then untracked
\* files.  os.walk(topdown=False) lists a directory before it descends, so a
\* sub-directory removed on the way up is still in the list of its parent.
prune(R, tree) ==
  LET dirs1 == {d \in tree.dirs : \/ \E p \in Paths : Dir(p) = d /\ IsFile(tree, p)
                                  \/ \E e \in tree.dirs : e # d /\ ParentDir(e) = d}
      files1 == [p \in Paths |-> IF p \in Keys(R.filepath_file_map) THEN tree.files[p] ELSE NoFile]
  IN Result([R EXCEPT !.last_action = "PRUNE"], [files |-> files1, dirs |-> dirs1], "")

(***************************************************************************)
(* update_status                                                           *)
(***************************************************************************)
\* f'{command} {hash} -> {rel_path}' as the list its split(' ') gives
Change(command, hash, rel_path) == <<command, hash, "->">> \o Words(rel_path)

\* every order in which the elements of a finite set can be listed
RECURSIVE Orders(_)
Orders(S) ==
  IF S = {} THEN {<<>>}
  ELSE UNION {{<<x>> \o o : o \in Orders(S \ {x})} : x \in S}

\* the files of the directories ds, directory after directory
RECURSIVE WalkDirs(_, _)
WalkDirs(tree, ds) ==
  IF ds = <<>> THEN {<<>>}
  ELSE {fs \o rest : fs \in Orders({p \in Paths : Dir(p) = Head(ds) /\ IsFile(tree, p)}),
                     rest \in WalkDirs(tree, Tail(ds))}

\* os.walk is top-down: the files of the root come before those of a
\* sub-directory; the order inside one directory is the filesystem's
WalkOrders(tree) ==
  UNION {WalkDirs(tree, <<"">> \o ds) : ds \in Orders(Dirs)}

\* ScanNewFile without the look at last_action: a new path with known bytes
\* still on disk is reported as copy in the first scan too
ScanNewFileNoInit(st, tree, rel_file_path) ==
  LET R == st.repo
      new_file == NewId(R)
      last_hash == calculate_blake2b_hash(tree, rel_file_path)
      R1 == [R EXCEPT !.files = Put(@, new_file, [rel_path |-> rel_file_path, last_hash |-> last_hash]),
                      !.filepath_file_map = SetItem(@, rel_file_path, new_file)]
  IN
  IF last_hash \in DOMAIN R.hash_file_map
  THEN LET bucket == R.hash_file_map[last_hash]
           file_copied == \E i \in 1..Len(bucket) : IsFile(tree, R.files[bucket[i]].rel_path)
           R2 == [R1 EXCEPT !.hash_file_map[last_hash] = Append(@, new_file)]
       IN IF file_copied
          THEN [st EXCEPT !.repo = R2,
                          !.new_changes = Append(@, Change("copy", last_hash, rel_file_path))]
          ELSE [st EXCEPT !.repo = R2,
                          !.new_changes = Append(@, Change("move", last_hash, rel_file_path)),
                          !.moved_file_hashes = @ \cup {last_hash}]
  ELSE [st EXCEPT !.repo = [R1 EXCEPT !.hash_file_map = Put(@, last_hash, <<new_file>>)],
                  !.new_changes = Append(@, Change("create", last_hash, rel_file_path))]

\* body of the first loop for a path that is not in filepath_file_map
ScanNewFile(st, tree, rel_file_path) ==
  LET R == st.repo
      new_file == NewId(R)
      last_hash == calculate_blake2b_hash(tree, rel_file_path)
      R1 == [R EXCEPT !.files = Put(@, new_file, [rel_path |-> rel_file_path, last_hash |-> last_hash]),
                      !.filepath_file_map = SetItem(@, rel_file_path, new_file)]
  IN
  IF last_hash \in DOMAIN R.hash_file_map
  THEN LET bucket == R.hash_file_map[last_hash]
           file_copied == \E i \in 1..Len(bucket) : IsFile(tree, R.files[bucket[i]].rel_path)
           R2 == [R1 EXCEPT !.hash_file_map[last_hash] = Append(@, new_file)]
       IN IF file_copied
          THEN [st EXCEPT !.repo = R2,
                          !.new_changes = Append(@, Change(IF R.last_action = "INIT" THEN "create" ELSE "copy",
                                                          last_hash, rel_file_path))]
          ELSE [st EXCEPT !.repo = R2,
                          !.new_changes = Append(@, Change("move", last_hash, rel_file_path)),
                          !.moved_file_hashes = @ \cup {last_hash}]
  ELSE [st EXCEPT !.repo = [R1 EXCEPT !.hash_file_map = Put(@, last_hash, <<new_file>>)],
                  !.new_changes = Append(@, Change("create", last_hash, rel_file_path))]

\* ScanKnownFile that does not store the new hash in the file object
ScanKnownFileStaleHash(st, tree, rel_file_path) ==
  LET R == st.repo
      file == GetItem(R.filepath_file_map, rel_file_path)
      file_last_hash == R.files[file].last_hash
  IN
  IF ~IsFile(tree, R.files[file].rel_path) THEN [st EXCEPT !.err = "FileNotFoundError"] ELSE
  LET file_new_hash == calculate_blake2b_hash(tree, R.files[file].rel_path) IN
  IF file_last_hash = file_new_hash THEN st ELSE
  IF file_last_hash \notin DOMAIN R.hash_file_map THEN [st EXCEPT !.err = "KeyError"] ELSE
  IF ~InList(R.hash_file_map[file_last_hash], file) THEN [st EXCEPT !.err = "ValueError"] ELSE
  LET R2 == [R EXCEPT !.hash_file_map[file_last_hash] = ListRemove(@, file)] IN
  IF file_new_hash \notin DOMAIN R2.hash_file_map
  THEN [st EXCEPT !.repo = [R2 EXCEPT !.hash_file_map = Put(@, file_new_hash, <<file>>)],
                  !.new_changes = Append(@, Change("modify", file_new_hash, rel_file_path))]
  ELSE [st EXCEPT !.repo = [R2 EXCEPT !.hash_file_map[file_new_hash] = Append(@, file)],
                  !.new_changes = Append(@, Change("copy", file_new_hash, rel_file_path))]

\* body of the first loop for a path that is in filepath_file_map
ScanKnownFile(st, tree, rel_file_path) ==
  LET R == st.repo
      file == GetItem(R.filepath_file_map, rel_file_path)
      file_last_hash == R.files[file].last_hash
  IN
  IF ~IsFile(tree, R.files[file].rel_path) THEN [st EXCEPT !.err = "FileNotFoundError"] ELSE
  LET file_new_hash == calculate_blake2b_hash(tree, R.files[file].rel_path)
      R1 == [R EXCEPT !.files[file].last_hash = file_new_hash]
  IN
  IF file_last_hash = file_new_hash THEN st ELSE
  IF file_last_hash \notin DOMAIN R.hash_file_map THEN [st EXCEPT !.repo = R1, !.err = "KeyError"] ELSE
  IF ~InList(R.hash_file_map[file_last_hash], file) THEN [st EXCEPT !.repo = R1, !.err = "ValueError"] ELSE
  LET R2 == [R1 EXCEPT !.hash_file_map[file_last_hash] = ListRemove(@, file)] IN
  IF file_new_hash \notin DOMAIN R2.hash_file_map
  THEN [st EXCEPT !.repo = [R2 EXCEPT !.hash_file_map = Put(@, file_new_hash, <<file>>)],
                  !.new_changes = Append(@, Change("modify", file_new_hash, rel_file_path))]
  ELSE [st EXCEPT !.repo = [R2 EXCEPT !.hash_file_map[file_new_hash] = Append(@, file)],
                  !.new_changes = Append(@, Change("copy", file_new_hash, rel_file_path))]

\* the first loop: "create entries and log changes for new files"
RECURSIVE ScanWalk(_, _, _)
ScanWalk(st, tree, walk) ==
  IF walk = <<>> \/ st.err # "" THEN st
  ELSE ScanWalk(IF Head(walk) \notin Keys(st.repo.filepath_file_map)
                THEN ScanNewFile(st, tree, Head(walk))
                ELSE ScanKnownFile(st, tree, Head(walk)),
                tree, Tail(walk))

\* ScanVanished that puts the delete record at the front of the log
ScanVanishedLoggedFirst(st, tree, item) ==
  LET R == st.repo
      file == item.val
      last_hash == R.files[file].last_hash
  IN
  IF IsFile(tree, R.files[file].rel_path) THEN st ELSE
  LET R1 == [R EXCEPT !.filepath_file_map = DelItem(@, item.key)] IN
  IF last_hash \notin DOMAIN R1.hash_file_map THEN [st EXCEPT !.repo = R1, !.err = "KeyError"] ELSE
  IF ~InList(R1.hash_file_map[last_hash], file) THEN [st EXCEPT !.repo = R1, !.err = "ValueError"] ELSE
  [st EXCEPT !.repo = [R1 EXCEPT !.hash_file_map[last_hash] = ListRemove(@, file)],
             !.new_changes = IF last_hash \in st.moved_file_hashes THEN @
                             ELSE <<Change("delete", last_hash, item.key)>> \o @]

\* ScanVanished without the look at moved_file_hashes: every vanished file
\* is reported as delete
ScanVanishedAlwaysLogged(st, tree, item) ==
  LET R == st.repo
      file == item.val
      last_hash == R.files[file].last_hash
  IN
  IF IsFile(tree, R.files[file].rel_path) THEN st ELSE
  LET R1 == [R EXCEPT !.filepath_file_map = DelItem(@, item.key)] IN
  IF last_hash \notin DOMAIN R1.hash_file_map THEN [st EXCEPT !.repo = R1, !.err = "KeyError"] ELSE
  IF ~InList(R1.hash_file_map[last_hash], file) THEN [st EXCEPT !.repo = R1, !.err = "ValueError"] ELSE
  [st EXCEPT !.repo = [R1 EXCEPT !.hash_file_map[last_hash] = ListRemove(@, file)],
             !.new_changes = Append(@, Change("delete", last_hash, item.key))]

\* body of the second loop: "prune deleted files from maps"
ScanVanished(st, tree, item) ==
  LET R == st.repo
      file == item.val
      last_hash == R.files[file].last_hash
  IN
  IF IsFile(tree, R.files[file].rel_path) THEN st ELSE
  LET R1 == [R EXCEPT !.filepath_file_map = DelItem(@, item.key)] IN
  IF last_hash \notin DOMAIN R1.hash_file_map THEN [st EXCEPT !.repo = R1, !.err = "KeyError"] ELSE
  IF ~InList(R1.hash_file_map[last_hash], file) THEN [st EXCEPT !.repo = R1, !.err = "ValueError"] ELSE
  [st EXCEPT !.repo = [R1 EXCEPT !.hash_file_map[last_hash] = ListRemove(@, file)],
             !.new_changes = IF last_hash \in st.moved_file_hashes THEN @
                             ELSE Append(@, Change("delete", last_hash, item.key))]

\* a second loop that looks at no item
ScanPruneSkipped(st, tree, items) == st

\* the second loop runs over filepath_file_map.copy().items()
RECURSIVE ScanPrune(_, _, _)
ScanPrune(st, tree, items) ==
  IF items = <<>> \/ st.err # "" THEN st
  ELSE ScanPrune(ScanVanished(st, tree, Head(items)), tree, Tail(items))

\* what update_status returns, and the repository it leaves (last_action is
\* set on the way out only)
ScanResult(st) ==
  [repo |-> Collect(IF st.err = "" THEN [st.repo EXCEPT !.last_action = "READ"] ELSE st.repo),
   new_changes |-> st.new_changes,
   err |-> st.err]

\* the second loop, over the items filepath_file_map holds after the first
ScanSecondLoop(st, tree) == ScanResult(ScanPrune(st, tree, st.repo.filepath_file_map))

\* LocalDirectoryRepository.update_status, for one order of the tree walk
update_status(R, tree, walk) ==
  ScanSecondLoop(ScanWalk([repo |-> R, new_changes |-> <<>>, moved_file_hashes |-> {}, err |-> ""],
                          tree, walk),
                 tree)

(***************************************************************************)
(* execute: the polling loop                                               *)
(***************************************************************************)
VARIABLES
  src_tree,      \* the source directory on disk
  dest_tree,     \* the destination directory on disk
  src_repo,      \* LocalDirectoryRepository over the source
  dest_repo,     \* LocalDirectoryRepository over the destination
  pc,            \* position of execute in its loop body
  src_changes,   \* records of src_changes not replayed yet
  dest_changes,  \* records of dest_changes not looked at yet
  error,         \* the exception that ended execute ("" while it runs)
  env_steps,     \* external changes made during the current sleep
  cycle,         \* number of the current cycle
  scan_pre,      \* the repository as update_status found it, while its result is fresh
  drift          \* destination paths written directly since the last cycle ended

vars == <<src_tree, dest_tree, src_repo, dest_repo, pc, src_changes, dest_changes,
          error, env_steps, cycle, scan_pre, drift>>

\* change.split(' '): change_parts[0], change_parts[1], change_parts[3]
Command(change) == change[1]
FileHash(change) == change[2]
FileLoc(change) == change[4]

\* every tree the source directory can hold when the program starts
Trees ==
  {[files |-> f, dirs |-> {Dir(p) : p \in {q \in Paths : f[q] # NoFile}} \ {""}] :
     f \in [Paths -> Contents \cup {NoFile}]}

\* no call of update_status has just returned
NoScan == [scanned |-> FALSE]
\* nothing was written directly into the destination
NoDrift == [untracked |-> {}, tracked |-> {}]

\* bootstrap_app: both repositories constructed, the destination directory empty
Init ==
  /\ src_tree \in Trees
  /\ dest_tree = EmptyTree
  /\ src_repo = NewRepository
  /\ dest_repo = NewRepository
  /\ pc = "src_scan"
  /\ src_changes = <<>>
  /\ dest_changes = <<>>
  /\ error = ""
  /\ env_steps = 0
  /\ cycle = 1
  /\ scan_pre = NoScan
  /\ drift = NoDrift

\* an exception that is caught and dropped: execute goes on
RaiseSwallowed(err) ==
  /\ pc' = pc
  /\ error' = error

\* an exception leaves execute: the process ends
Raise(err) ==
  /\ pc' = "crashed"
  /\ error' = err

\* src_changes = src_repo.update_status()
SrcUpdateStatus ==
  /\ pc = "src_scan"
  /\ \E walk \in WalkOrders(src_tree) :
       LET r == update_status(src_repo, src_tree, walk) IN
       /\ src_repo' = r.repo
       /\ IF r.err # ""
          THEN Raise(r.err) /\ UNCHANGED src_changes
          ELSE /\ src_changes' = r.new_changes
               /\ pc' = "replay"
               /\ UNCHANGED error
  /\ scan_pre' = [scanned |-> TRUE, who |-> "src", repo |-> src_repo]
  /\ UNCHANGED <<src_tree, dest_tree, dest_repo, dest_changes, env_steps, cycle, drift>>

\* src_repo.get_file_at_path(file_loc).read()
SrcRead(file_loc) ==
  LET g == get_file_at_path(src_repo, file_loc) IN
  [repo |-> g.repo,
   err |-> IF g.err # "" THEN g.err
           ELSE IF ~IsFile(src_tree, src_repo.files[g.file].rel_path) THEN "FileNotFoundError"
           ELSE "",
   content |-> IF g.err = "" THEN read(src_tree, src_repo.files[g.file].rel_path) ELSE NoFile]

\* the destination after one call r of a primitive, and the next position
Replayed(r) ==
  /\ dest_repo' = r.repo
  /\ dest_tree' = r.tree
  /\ IF r.err # ""
     THEN Raise(r.err) /\ UNCHANGED src_changes
     ELSE /\ src_changes' = Tail(src_changes)
          /\ UNCHANGED <<pc, error>>

\* a replay of create that writes the file through the source repository
ReplayCreateInSource ==
  /\ pc = "replay" /\ src_changes # <<>>
  /\ Command(Head(src_changes)) = "create"
  /\ LET file_loc == FileLoc(Head(src_changes))
         s == SrcRead(file_loc)
         r == create_file(s.repo, src_tree, file_loc, s.content)
     IN IF s.err # ""
        THEN /\ src_repo' = s.repo
             /\ Raise(s.err)
             /\ UNCHANGED <<src_tree, src_changes>>
        ELSE /\ src_repo' = r.repo
             /\ src_tree' = r.tree
             /\ src_changes' = Tail(src_changes)
             /\ UNCHANGED <<pc, error>>
  /\ scan_pre' = NoScan
  /\ UNCHANGED <<dest_repo, dest_tree, dest_changes, env_steps, cycle, drift>>

\* command == 'create'
ReplayCreate ==
  /\ pc = "replay" /\ src_changes # <<>>
  /\ Command(Head(src_changes)) = "create"
  /\ LET file_loc == FileLoc(Head(src_changes))
         s == SrcRead(file_loc)
     IN /\ src_repo' = s.repo
        /\ IF s.err # ""
           THEN Raise(s.err) /\ UNCHANGED <<dest_repo, dest_tree, src_changes>>
           ELSE Replayed(create_file(dest_repo, dest_tree, file_loc, s.content))
  /\ scan_pre' = NoScan
  /\ UNCHANGED <<src_tree, dest_changes, env_steps, cycle, drift>>

\* command == 'modify'
ReplayModify ==
  /\ pc = "replay" /\ src_changes # <<>>
  /\ Command(Head(src_changes)) = "modify"
  /\ LET file_loc == FileLoc(Head(src_changes))
         s == SrcRead(file_loc)
     IN /\ src_repo' = s.repo
        /\ IF s.err # ""
           THEN Raise(s.err) /\ UNCHANGED <<dest_repo, dest_tree, src_changes>>
           ELSE Replayed(modify_file(dest_repo, dest_tree, file_loc, s.content))
  /\ scan_pre' = NoScan
  /\ UNCHANGED <<src_tree, dest_changes, env_steps, cycle, drift>>

\* a replay of move that transfers the bytes again: it reads the source file
\* at the record's path and creates the destination file from them
ReplayMoveRetransfer ==
  /\ pc = "replay" /\ src_changes # <<>>
  /\ Command(Head(src_changes)) = "move"
  /\ LET file_loc == FileLoc(Head(src_changes))
         s == SrcRead(file_loc)
     IN /\ src_repo' = s.repo
        /\ IF s.err # ""
           THEN Raise(s.err) /\ UNCHANGED <<dest_repo, dest_tree, src_changes>>
           ELSE Replayed(create_file(dest_repo, dest_tree, file_loc, s.content))
  /\ scan_pre' = NoScan
  /\ UNCHANGED <<src_tree, dest_changes, env_steps, cycle, drift>>

\* command == 'move'
ReplayMove ==
  /\ pc = "replay" /\ src_changes # <<>>
  /\ Command(Head(src_changes)) = "move"
  /\ Replayed(move_file(dest_repo, dest_tree, FileHash(Head(src_changes)), FileLoc(Head(src_changes))))
  /\ scan_pre' = NoScan
  /\ UNCHANGED <<src_tree, src_repo, dest_changes, env_steps, cycle, drift>>

\* command == 'copy'
ReplayCopy ==
  /\ pc = "replay" /\ src_changes # <<>>
  /\ Command(Head(src_changes)) = "copy"
  /\ Replayed(copy_file(dest_repo, dest_tree, FileHash(Head(src_changes)), FileLoc(Head(src_changes))))
  /\ scan_pre' = NoScan
  /\ UNCHANGED <<src_tree, src_repo, dest_changes, env_steps, cycle, drift>>

\* command == 'delete'
ReplayDelete ==
  /\ pc = "replay" /\ src_changes # <<>>
  /\ Command(Head(src_changes)) = "delete"
  /\ Replayed(delete_file(dest_repo, dest_tree, FileLoc(Head(src_changes))))
  /\ scan_pre' = NoScan
  /\ UNCHANGED <<src_tree, src_repo, dest_changes, env_steps, cycle, drift>>

\* dest_repo.prune(), once the for loop over src_changes has ended
DestPrune ==
  /\ pc = "replay" /\ src_changes = <<>>
  /\ LET r == prune(dest_repo, dest_tree) IN
     /\ dest_repo' = r.repo
     /\ dest_tree' = r.tree
  /\ pc' = "dest_scan"
  /\ scan_pre' = NoScan
  /\ UNCHANGED <<src_tree, src_repo, src_changes, dest_changes, error, env_steps, cycle, drift>>

\* dest_changes = dest_repo.update_status()
DestUpdateStatus ==
  /\ pc = "dest_scan"
  /\ \E walk \in WalkOrders(dest_tree) :
       LET r == update_status(dest_repo, dest_tree, walk) IN
       /\ dest_repo' = r.repo
       /\ IF r.err # ""
          THEN Raise(r.err) /\ UNCHANGED dest_changes
          ELSE /\ dest_changes' = r.new_changes
               /\ pc' = "restore"
               /\ UNCHANGED error
  /\ scan_pre' = [scanned |-> TRUE, who |-> "dest", repo |-> dest_repo]
  /\ UNCHANGED <<src_tree, dest_tree, src_repo, src_changes, env_steps, cycle, drift>>

\* one iteration of the loop over dest_changes: a modify record is restored
\* from the source (get_file_at_path is called for the log line and for the read)
Restore ==
  /\ pc = "restore" /\ dest_changes # <<>>
  /\ LET file_loc == FileLoc(Head(dest_changes))
         s == SrcRead(file_loc)
         r == modify_file(dest_repo, dest_tree, file_loc, s.content)
     IN IF Command(Head(dest_changes)) # "modify"
        THEN /\ dest_changes' = Tail(dest_changes)
             /\ UNCHANGED <<src_repo, dest_repo, dest_tree, pc, error>>
        ELSE /\ src_repo' = s.repo
             /\ IF s.err # ""
                THEN Raise(s.err) /\ UNCHANGED <<dest_repo, dest_tree, dest_changes>>
                ELSE /\ dest_repo' = r.repo
                     /\ dest_tree' = r.tree
                     /\ IF r.err # ""
                        THEN Raise(r.err) /\ UNCHANGED dest_changes
                        ELSE dest_changes' = Tail(dest_changes) /\ UNCHANGED <<pc, error>>
  /\ scan_pre' = NoScan
  /\ UNCHANGED <<src_tree, src_changes, env_steps, cycle, drift>>

\* sleep(config.interval_ms / 1000), once the loop over dest_changes has ended
Sleep ==
  /\ pc = "restore" /\ dest_changes = <<>>
  /\ pc' = "sleep"
  /\ env_steps' = 0
  /\ scan_pre' = NoScan
  /\ drift' = NoDrift
  /\ UNCHANGED <<src_tree, dest_tree, src_repo, dest_repo, src_changes, dest_changes, error, cycle>>

\* the sleep ends: the next iteration of while True
WakeUp ==
  /\ pc = "sleep"
  /\ cycle < MaxCycles
  /\ pc' = "src_scan"
  /\ cycle' = cycle + 1
  /\ UNCHANGED <<src_tree, dest_tree, src_repo, dest_repo, src_changes, dest_changes, error,
                 env_steps, scan_pre, drift>>

(***************************************************************************)
(* The user of the source directory, at work while the loop sleeps         *)
(***************************************************************************)
\* one change of the source tree made from outside while execute sleeps
EnvStep(tree) ==
  /\ pc = "sleep"
  /\ env_steps < MaxEnvSteps
  /\ env_steps' = env_steps + 1
  /\ src_tree' = tree
  /\ UNCHANGED <<dest_tree, src_repo, dest_repo, pc, src_changes, dest_changes, error, cycle,
                 scan_pre, drift>>

\* a new file appears in the source
SrcCreate ==
  \E p \in Paths, c \in Contents :
    /\ ~IsFile(src_tree, p)
    /\ EnvStep(WriteFile(MakeDirs(src_tree, Dir(p)), p, c))

\* other bytes are written into a source file
SrcModify ==
  \E p \in Paths, c \in Contents :
    /\ IsFile(src_tree, p) /\ src_tree.files[p] # c
    /\ EnvStep(WriteFile(src_tree, p, c))

\* a source file is renamed to a free path
SrcRename ==
  \E p, q \in Paths :
    /\ IsFile(src_tree, p) /\ ~IsFile(src_tree, q)
    /\ EnvStep(ShutilMove(MakeDirs(src_tree, Dir(q)), p, q))

\* a source file is duplicated at a free path
SrcCopy ==
  \E p, q \in Paths :
    /\ IsFile(src_tree, p) /\ ~IsFile(src_tree, q)
    /\ EnvStep(WriteFile(MakeDirs(src_tree, Dir(q)), q, src_tree.files[p]))

\* a source file is removed
SrcDelete ==
  \E p \in Paths :
    /\ IsFile(src_tree, p)
    /\ EnvStep(RemoveFile(src_tree, p))

\* the loop of execute and the user of the source directory
Next ==
  \/ SrcUpdateStatus
  \/ ReplayCreate
  \/ ReplayModify
  \/ ReplayMove
  \/ ReplayCopy
  \/ ReplayDelete
  \/ DestPrune
  \/ DestUpdateStatus
  \/ Restore
  \/ Sleep
  \/ WakeUp
  \/ SrcCreate
  \/ SrcModify
  \/ SrcRename
  \/ SrcCopy
  \/ SrcDelete

Spec == Init /\ [][Next]_vars

(***************************************************************************)
(* Somebody writing directly into the destination directory while the      *)
(* loop sleeps                                                             *)
(***************************************************************************)
\* one direct write into the destination tree while execute sleeps
DriftStep(tree, d) ==
  /\ pc = "sleep"
  /\ env_steps < MaxEnvSteps
  /\ env_steps' = env_steps + 1
  /\ dest_tree' = tree
  /\ drift' = d
  /\ UNCHANGED <<src_tree, src_repo, dest_repo, pc, src_changes, dest_changes, error, cycle,
                 scan_pre>>

\* a file is written at a path the destination repository does not track
DestWriteUntracked ==
  \E p \in Paths, c \in Contents :
    /\ p \notin Keys(dest_repo.filepath_file_map)
    /\ ~IsFile(dest_tree, p)
    /\ DriftStep(WriteFile(MakeDirs(dest_tree, Dir(p)), p, c),
                 [drift EXCEPT !.untracked = @ \cup {p}])

\* bytes are written into a file the destination repository tracks
DestWriteTracked ==
  \E p \in Paths, c \in Contents :
    /\ p \in Keys(dest_repo.filepath_file_map)
    /\ IsFile(dest_tree, p) /\ dest_tree.files[p] # c
    /\ DriftStep(WriteFile(dest_tree, p, c),
                 [drift EXCEPT !.tracked = @ \cup {p}])

\* the same, with direct writes into the destination between cycles
NextDrift ==
  \/ Next
  \/ DestWriteUntracked
  \/ DestWriteTracked

SpecDrift == Init /\ [][NextDrift]_vars

(***************************************************************************)
(* Somebody writing directly into the destination directory while a cycle  *)
(* runs: nothing keeps other processes out of the tree.  The source is     *)
(* left alone, so src_changes holds create records only and the other      *)
(* branches of the replay are never taken.                                 *)
(***************************************************************************)
RaceStep(tree, d) ==
  /\ pc \in {"replay", "dest_scan", "restore"}
  /\ env_steps < MaxEnvSteps
  /\ env_steps' = env_steps + 1
  /\ dest_tree' = tree
  /\ drift' = d
  /\ scan_pre' = NoScan
  /\ UNCHANGED <<src_tree, src_repo, dest_repo, pc, src_changes, dest_changes, error, cycle>>

\* the path a direct write hits is tracked by the destination repository or not
Drifted(p) ==
  IF p \in Keys(dest_repo.filepath_file_map)
  THEN [drift EXCEPT !.tracked = @ \cup {p}]
  ELSE [drift EXCEPT !.untracked = @ \cup {p}]

\* between two steps of execute a file appears at a path that holds none
RaceWriteNew ==
  \E p \in Paths, c \in Contents :
    /\ ~IsFile(dest_tree, p)
    /\ RaceStep(WriteFile(MakeDirs(dest_tree, Dir(p)), p, c), Drifted(p))

\* between two steps of execute the bytes of a file are replaced
RaceOverwrite ==
  \E p \in Paths, c \in Contents :
    /\ IsFile(dest_tree, p) /\ dest_tree.files[p] # c
    /\ RaceStep(WriteFile(dest_tree, p, c), Drifted(p))

\* between two steps of execute a file is removed
RaceDelete ==
  \E p \in Paths :
    /\ IsFile(dest_tree, p)
    /\ RaceStep(RemoveFile(dest_tree, p), Drifted(p))

\* execute over a source nobody changes, and the writer on the destination
NextRace ==
  \/ SrcUpdateStatus
  \/ ReplayCreate
  \/ DestPrune
  \/ DestUpdateStatus
  \/ Restore
  \/ Sleep
  \/ WakeUp
  \/ RaceWriteNew
  \/ RaceOverwrite
  \/ RaceDelete

SpecRace == Init /\ [][NextRace]_vars

(***************************************************************************)
(* Somebody removing or renaming a file of the destination directory at    *)
(* the end of a sleep in which the source was not changed                  *)
(***************************************************************************)
DestLossStep(tree, p) ==
  /\ pc = "sleep"
  /\ env_steps = 0
  /\ cycle < MaxCycles
  /\ dest_tree' = tree
  /\ drift' = [drift EXCEPT !.tracked = {p}]
  /\ pc' = "src_scan"
  /\ cycle' = cycle + 1
  /\ UNCHANGED <<src_tree, src_repo, dest_repo, src_changes, dest_changes, error, env_steps,
                 scan_pre>>

\* a tracked destination file is deleted
DestDeleteTracked ==
  \E p \in Keys(dest_repo.filepath_file_map) :
    /\ IsFile(dest_tree, p)
    /\ DestLossStep(RemoveFile(dest_tree, p), p)

\* a tracked destination file is renamed to a free path
DestRenameTracked ==
  \E p \in Keys(dest_repo.filepath_file_map), q \in Paths :
    /\ IsFile(dest_tree, p) /\ ~IsFile(dest_tree, q)
    /\ DestLossStep(ShutilMove(MakeDirs(dest_tree, Dir(q)), p, q), p)

\* the loop, the user of the source directory, and the loss of destination files
NextLoss ==
  \/ Next
  \/ DestDeleteTracked
  \/ DestRenameTracked

SpecLoss == Init /\ [][NextLoss]_vars

(***************************************************************************)
(* Somebody creating directories and files in the destination directory    *)
(* while the loop sleeps                                                   *)
(***************************************************************************)
\* mkdir of a directory whose parent exists
DestMakeDir ==
  \E d \in Dirs \cup NestedDirs :
    /\ ~DirExists(dest_tree, d)
    /\ DirExists(dest_tree, ParentDir(d))
    /\ DriftStep([dest_tree EXCEPT !.dirs = @ \cup {d}], drift)

\* the loop, the user of the source directory, and untracked files and
\* directories appearing in the destination between cycles
NextDirs ==
  \/ Next
  \/ DestWriteUntracked
  \/ DestMakeDir

SpecDirs == Init /\ [][NextDirs]_vars

(***************************************************************************)
(* Properties                                                              *)
(***************************************************************************)
\* the loop body has run to its end: the sleep is next
CycleEnd == pc = "restore" /\ dest_changes = <<>>

\* C1 (mirror convergence): at the end of every cycle in which nobody wrote
\* into the destination, the destination tree holds the same relative paths
\* as the source tree, each with the same content.
MirrorConvergence ==
  CycleEnd => \A p \in Paths : dest_tree.files[p] = src_tree.files[p]

\* the buckets of hash_file_map that hold the object file
BucketsOf(R, file) == {h \in DOMAIN R.hash_file_map : InList(R.hash_file_map[h], file)}
\* how often the object file occurs in the bucket of h
Occurrences(R, h, file) ==
  Cardinality({i \in 1..Len(R.hash_file_map[h]) : R.hash_file_map[h][i] = file})
\* total number of entries of hash_file_map
RECURSIVE SumLen(_, _)
SumLen(f, S) ==
  IF S = {} THEN 0 ELSE LET h == CHOOSE x \in S : TRUE IN Len(f[h]) + SumLen(f, S \ {h})

\* invariant I1 of one repository
I1(R) ==
  /\ \A i \in 1..Len(R.filepath_file_map) :
       LET file == R.filepath_file_map[i].val IN
       /\ BucketsOf(R, file) = {R.files[file].last_hash}
       /\ Occurrences(R, R.files[file].last_hash, file) = 1
  /\ \A h \in DOMAIN R.hash_file_map : \A i \in 1..Len(R.hash_file_map[h]) :
       LET file == R.hash_file_map[h][i] IN
       /\ R.files[file].rel_path \in Keys(R.filepath_file_map)
       /\ GetItem(R.filepath_file_map, R.files[file].rel_path) = file
  /\ Len(R.filepath_file_map) = SumLen(R.hash_file_map, DOMAIN R.hash_file_map)

\* C2 (invariant I1): whenever an operation or a scan has returned, the two
\* indices of each repository hold the same files, each file once in the
\* bucket of its last_hash.
HashIndexConsistent == (pc # "crashed") => (I1(src_repo) /\ I1(dest_repo))

\* the record can be replayed on the destination's own indices
Resolves(R, change) ==
  IF Command(change) \in {"modify", "delete"} THEN FileLoc(change) \in Keys(R.filepath_file_map)
  ELSE IF Command(change) \in {"move", "copy"}
       THEN /\ FileHash(change) \in DOMAIN R.hash_file_map
            /\ R.hash_file_map[FileHash(change)] # <<>>
       ELSE TRUE

\* C3 (no missing key in normal replay): every record of the source change
\* log, at the moment it is replayed, names a path the destination tracks
\* (modify, delete) or a hash with a non-empty destination bucket (move, copy).
ReplayResolves ==
  (pc = "replay" /\ src_changes # <<>>) => Resolves(dest_repo, Head(src_changes))

\* C4 (drift healing): at the end of the cycle that follows direct writes into
\* the destination, a file written at an untracked path is gone (the source
\* has none there) and a tracked file that was overwritten holds the content
\* of the same path in the source.
DriftHealed ==
  (CycleEnd /\ drift.untracked # {} /\ drift.tracked # {}) =>
    /\ \A p \in drift.untracked : ~IsFile(src_tree, p) => ~IsFile(dest_tree, p)
    /\ \A p \in drift.tracked : dest_tree.files[p] = src_tree.files[p]

\* invariant I2 of one repository
I2(R) == \A h \in DOMAIN R.hash_file_map : R.hash_file_map[h] # <<>>

\* C5 (invariant I2): whenever an operation or a scan has returned, no key of
\* hash_file_map is mapped to an empty list.
NoEmptyBuckets == (pc # "crashed") => (I2(src_repo) /\ I2(dest_repo))

\* the call of update_status that has just ended: the repository it left, the
\* tree it walked, the change log it returned
ScanRepo == IF scan_pre.who = "src" THEN src_repo ELSE dest_repo
ScanTree == IF scan_pre.who = "src" THEN src_tree ELSE dest_tree
ScanLog == IF scan_pre.who = "src" THEN src_changes ELSE dest_changes
ScanReturned == scan_pre.scanned /\ pc # "crashed"

\* last_hash of the file tracked at p
LastHash(R, p) == R.files[GetItem(R.filepath_file_map, p)].last_hash

\* nothing happened at p since repository R was brought up to date
Untouched(R, tree, p) ==
  IF p \in Keys(R.filepath_file_map)
  THEN IsFile(tree, p) /\ LastHash(R, p) = Blake2b(tree.files[p])
  ELSE ~IsFile(tree, p)

\* the tracked file x was renamed to the untracked path y, and nothing else changed
RenamedOnly(R, tree, x, y) ==
  /\ x \in Keys(R.filepath_file_map) /\ ~IsFile(tree, x)
  /\ y \notin Keys(R.filepath_file_map) /\ IsFile(tree, y)
  /\ Blake2b(tree.files[y]) = LastHash(R, x)
  /\ \A p \in Paths \ {x, y} : Untouched(R, tree, p)

\* no other tracked file holds the bytes of x
NoTwin(R, x, y) ==
  \A p \in Paths \ {x, y} : p \in Keys(R.filepath_file_map) => LastHash(R, p) # LastHash(R, x)

\* the log holds one move record, the one for y, and no delete or create
\* record for the hash h
OneMove(log, h, y) ==
  /\ \E i \in 1..Len(log) :
       /\ log[i] = Change("move", h, y)
       /\ \A j \in 1..Len(log) : Command(log[j]) = "move" => j = i
  /\ \A i \in 1..Len(log) : Command(log[i]) \in {"delete", "create"} => FileHash(log[i]) # h

\* C6 as stated (move detection): a rename of a tracked file between two scans,
\* with nothing else changed, gives one move record for the new path and no
\* delete or create record for that content.
MoveDetectedAlways ==
  scan_pre.scanned =>
    \A x, y \in Paths :
      RenamedOnly(scan_pre.repo, ScanTree, x, y) =>
        pc # "crashed" /\ OneMove(ScanLog, LastHash(scan_pre.repo, x), y)

\* C6 as amended: the same, when no other tracked file holds the same bytes.
MoveDetected ==
  scan_pre.scanned =>
    \A x, y \in Paths :
      (RenamedOnly(scan_pre.repo, ScanTree, x, y) /\ NoTwin(scan_pre.repo, x, y)) =>
        pc # "crashed" /\ OneMove(ScanLog, LastHash(scan_pre.repo, x), y)

\* a scan has just met the case of C6
MoveDetectedWitness ==
  /\ ScanReturned
  /\ \E x, y \in Paths :
       RenamedOnly(scan_pre.repo, ScanTree, x, y) /\ NoTwin(scan_pre.repo, x, y)

\* the record is in the log
Logged(log, change) == \E i \in 1..Len(log) : log[i] = change

\* the scan found the new path y with the bytes of the tracked file z, which is
\* still on disk with the bytes the repository knows
NewTwin(R, tree, y, z) ==
  /\ y \notin Keys(R.filepath_file_map) /\ IsFile(tree, y)
  /\ z \in Keys(R.filepath_file_map) /\ IsFile(tree, z)
  /\ LastHash(R, z) = Blake2b(tree.files[z])
  /\ Blake2b(tree.files[y]) = Blake2b(tree.files[z])

\* C7 (create vs copy): the first update_status of a repository reports every
\* file it discovers as create, duplicates included; a later one reports a new
\* path with the bytes of an unchanged tracked file as copy; last_action is
\* INIT only while the repository has not been operated on.
CreateVsCopy ==
  /\ (scan_pre.scanned /\ cycle = 1) =>
       /\ pc # "crashed"
       /\ \A i \in 1..Len(ScanLog) : Command(ScanLog[i]) = "create"
       /\ \A p \in Paths :
            (IsFile(ScanTree, p) /\ p \notin Keys(scan_pre.repo.filepath_file_map)) =>
              Logged(ScanLog, Change("create", Blake2b(ScanTree.files[p]), p))
  /\ (scan_pre.scanned /\ cycle > 1) =>
       \A y, z \in Paths :
         NewTwin(scan_pre.repo, ScanTree, y, z) =>
           pc # "crashed" /\ Logged(ScanLog, Change("copy", Blake2b(ScanTree.files[y]), y))
  /\ (src_repo.last_action = "INIT") =>
       (cycle = 1 /\ pc = "src_scan" /\ src_repo = NewRepository)
  /\ (dest_repo.last_action = "INIT") =>
       (cycle = 1 /\ pc \in {"src_scan", "replay"} /\ dest_repo = NewRepository /\ dest_tree = EmptyTree)

\* a later scan has just met a new path with the bytes of a tracked file
CreateVsCopyWitness ==
  /\ ScanReturned /\ cycle > 1
  /\ \E y, z \in Paths : NewTwin(scan_pre.repo, ScanTree, y, z)

\* the second call r2 of update_status returned nothing and left the indices
\* and the file objects as the first call r1 left them
SecondEmpty(r1, r2) ==
  /\ r2.err = ""
  /\ r2.new_changes = <<>>
  /\ r2.repo.filepath_file_map = r1.repo.filepath_file_map
  /\ r2.repo.hash_file_map = r1.repo.hash_file_map
  /\ r2.repo.files = r1.repo.files
\* every second call that follows the first call r1, when that one returned
AfterFirst(r1, tree) ==
  (r1.err = "") => \A w2 \in WalkOrders(tree) : SecondEmpty(r1, update_status(r1.repo, tree, w2))
\* update_status called twice on repository R over the same tree
TwiceEmpty(R, tree) ==
  \A w1 \in WalkOrders(tree) : AfterFirst(update_status(R, tree, w1), tree)

\* C8 (idempotent scan): in every state execute passes through, for either
\* repository, a second update_status over an unchanged tree returns an empty
\* change log and leaves both indices as the first call left them.  (The
\* states of the sleep are those of the scan that follows it.)
IdempotentScan ==
  (pc # "sleep") => (TwiceEmpty(src_repo, src_tree) /\ TwiceEmpty(dest_repo, dest_tree))

\* a scan has just returned changes: the case where a second scan has something to repeat
IdempotentScanWitness == ScanReturned /\ Len(ScanLog) >= 2

\* the next step replays a move or copy record
ReplaysMoveOrCopy ==
  /\ pc = "replay" /\ src_changes # <<>>
  /\ Command(Head(src_changes)) \in {"move", "copy"}

\* the file now at the record's path holds the bytes a file of the
\* destination's own bucket for the record's hash held
TakenFromBucket ==
  LET bucket == dest_repo.hash_file_map[FileHash(Head(src_changes))] IN
  \E i \in 1..Len(bucket) :
    dest_tree'.files[FileLoc(Head(src_changes))] = dest_tree.files[dest_repo.files[bucket[i]].rel_path]

\* C9 (no re-transfer): the replay of a move or copy record makes no call on
\* the source repository and reads no source file; the file it leaves at the
\* record's path comes from the destination's bucket for the record's hash.
NoRetransfer ==
  [][ReplaysMoveOrCopy =>
       /\ src_repo' = src_repo
       /\ src_tree' = src_tree
       /\ (pc' # "crashed" => TakenFromBucket)]_vars

\* a move or copy record was replayed in a cycle that made no call of
\* get_file_at_path on the source
NoRetransferWitness ==
  /\ pc = "replay"
  /\ dest_repo.last_action \in {"MOVE", "COPY"}
  /\ src_repo.last_action = "READ"

\* C10 (one-way sync): no step of the loop changes a file of the source tree,
\* and the source indices change only inside src_repo.update_status.
OneWay ==
  [][/\ (pc # "sleep" \/ pc' # "sleep") => src_tree' = src_tree
     /\ (pc # "src_scan") =>
          /\ src_repo'.filepath_file_map = src_repo.filepath_file_map
          /\ src_repo'.hash_file_map = src_repo.hash_file_map
          /\ src_repo'.files = src_repo.files]_vars

\* a cycle that read the source and wrote the destination has come to its end
OneWayWitness ==
  /\ CycleEnd /\ cycle > 1
  /\ src_repo.last_action = "GET"
  /\ \E p \in Paths : IsFile(dest_tree, p)

\* create_file(p, b) on repository R, then get_file_at_path(p).read(): both
\* calls return and the bytes read are b
RoundTrip(R, tree, p, b) ==
  LET c == create_file(R, tree, p, b)
      g == get_file_at_path(c.repo, p)
  IN /\ c.err = ""
     /\ g.err = ""
     /\ IsFile(c.tree, c.repo.files[g.file].rel_path)
     /\ read(c.tree, c.repo.files[g.file].rel_path) = b

\* C11 (round trip): from every state of either repository that execute
\* passes through, for every path p and byte string b, create_file(p, b)
\* followed by get_file_at_path(p).read() returns b.  (The states of the sleep
\* are those of the scan that follows it.)
CreateReadRoundTrip ==
  (pc # "sleep") =>
    \A p \in Paths, b \in Contents :
      RoundTrip(src_repo, src_tree, p, b) /\ RoundTrip(dest_repo, dest_tree, p, b)

\* create_file has just returned on the destination, after an earlier create,
\* and the path it added reads back the bytes that were written
CreateReadRoundTripWitness ==
  /\ pc = "replay" /\ dest_repo.last_action = "CREATE"
  /\ Len(dest_repo.filepath_file_map) >= 2
  /\ \E p \in Paths :
       LET g == get_file_at_path(dest_repo, p) IN
       /\ g.err = ""
       /\ dest_repo.filepath_file_map[Len(dest_repo.filepath_file_map)].key = p
       /\ read(dest_tree, dest_repo.files[g.file].rel_path) = read(src_tree, p)

\* some tracked file of R has the hash h
HeldBy(R, h) ==
  \E i \in 1..Len(R.filepath_file_map) : R.files[R.filepath_file_map[i].val].last_hash = h

\* get_file_with_hash(h) fails on R when no tracked file has the hash h
NotFoundUnlessHeld(R) ==
  \A c \in Contents : ~HeldBy(R, Blake2b(c)) => get_file_with_hash(R, Blake2b(c)).err # ""

\* C14 (get_file_with_hash fails with NotFound): in every state an operation
\* or a scan has left, get_file_with_hash(h) raises when no tracked file has
\* hash h, and never returns an empty list.
HashLookupFails ==
  (pc # "crashed") => (NotFoundUnlessHeld(src_repo) /\ NotFoundUnlessHeld(dest_repo))

\* create_file(p, content) raises on R for every tracked path p
CreateRaisesOnTracked(R, tree) ==
  \A p \in Keys(R.filepath_file_map), c \in Contents : create_file(R, tree, p, c).err # ""

\* C15 (create_file fails on a tracked path): in every state an operation or
\* a scan has left, create_file(p, content) raises when p is a key of
\* filepath_file_map.
CreateFailsOnTracked ==
  (pc # "crashed") =>
    (CreateRaisesOnTracked(src_repo, src_tree) /\ CreateRaisesOnTracked(dest_repo, dest_tree))

\* the exception the replay of the record at the head of src_changes ends
\* with ("" if it returns)
ReplayFailure ==
  LET change == Head(src_changes)
      s == SrcRead(FileLoc(change))
  IN CASE Command(change) = "create" ->
            IF s.err # "" THEN s.err
            ELSE create_file(dest_repo, dest_tree, FileLoc(change), s.content).err
       [] Command(change) = "modify" ->
            IF s.err # "" THEN s.err
            ELSE modify_file(dest_repo, dest_tree, FileLoc(change), s.content).err
       [] Command(change) = "move" ->
            move_file(dest_repo, dest_tree, FileHash(change), FileLoc(change)).err
       [] Command(change) = "copy" ->
            copy_file(dest_repo, dest_tree, FileHash(change), FileLoc(change)).err
       [] Command(change) = "delete" ->
            delete_file(dest_repo, dest_tree, FileLoc(change)).err
       [] OTHER -> ""

\* C13 (abort on failure): when the primitive called for a record fails, the
\* exception leaves execute with the record and all later ones unapplied, and
\* once an exception has left execute no step follows: no replay, no prune,
\* no scan.
AbortOnFailure ==
  [][/\ error = ""
     /\ (pc = "replay" /\ src_changes # <<>> /\ ReplayFailure # "") =>
          /\ pc' = "crashed"
          /\ error' = ReplayFailure
          /\ src_changes' = src_changes
          /\ dest_changes' = dest_changes]_vars

\* a replay has failed with later records of the log still to apply
AbortOnFailureWitness ==
  /\ pc = "crashed" /\ error # ""
  /\ Len(src_changes) >= 2

\* the regular files on disk
OnDisk(tree) == {p \in Paths : IsFile(tree, p)}

\* C16 (scan postcondition): when update_status returns, the keys of
\* filepath_file_map are the relative paths of the files on disk and every
\* tracked file's last_hash is the fingerprint of its bytes on disk.
ScanPostcondition ==
  ScanReturned =>
    /\ Keys(ScanRepo.filepath_file_map) = OnDisk(ScanTree)
    /\ \A p \in Keys(ScanRepo.filepath_file_map) :
         /\ ScanRepo.files[GetItem(ScanRepo.filepath_file_map, p)].rel_path = p
         /\ LastHash(ScanRepo, p) = Blake2b(ScanTree.files[p])

\* a scan has returned that found a changed file and a vanished one
ScanPostconditionWitness ==
  /\ ScanReturned /\ cycle > 1
  /\ \E i, j \in 1..Len(ScanLog) : Command(ScanLog[i]) = "modify" /\ Command(ScanLog[j]) = "delete"
  /\ Keys(ScanRepo.filepath_file_map) # Keys(scan_pre.repo.filepath_file_map)

\* the tracked paths of R that have vanished from the tree, with last_hash h
Vanished(R, tree, h) ==
  {x \in Keys(R.filepath_file_map) : LastHash(R, x) = h /\ ~IsFile(tree, x)}

\* the new path y holds bytes that no tracked file had when the scan began
\* and that no other file on disk holds
NewContent(R, tree, y) ==
  /\ y \notin Keys(R.filepath_file_map) /\ IsFile(tree, y)
  /\ ~HeldBy(R, Blake2b(tree.files[y]))
  /\ \A q \in Paths \ {y} : tree.files[q] # tree.files[y]

\* C17 (classification of new content): a scan reports a new path whose
\* fingerprint no tracked file held at its start as create, and emits a move
\* record only for a fingerprint of a tracked file that has vanished from disk.
NewContentIsCreate ==
  scan_pre.scanned =>
    /\ \A y \in Paths :
         NewContent(scan_pre.repo, ScanTree, y) =>
           /\ pc # "crashed"
           /\ Logged(ScanLog, Change("create", Blake2b(ScanTree.files[y]), y))
           /\ \A i \in 1..Len(ScanLog) : FileLoc(ScanLog[i]) = y => Command(ScanLog[i]) = "create"
    /\ pc # "crashed" =>
         \A i \in 1..Len(ScanLog) :
           Command(ScanLog[i]) = "move" => Vanished(scan_pre.repo, ScanTree, FileHash(ScanLog[i])) # {}

\* the records of the log with the given command and hash
Records(log, command, h) ==
  {i \in 1..Len(log) : Command(log[i]) = command /\ FileHash(log[i]) = h}

\* C18 (a move accounts for one disappearance): in the log of one scan, for
\* each hash, the vanished tracked paths that have no delete record are as
\* many as the move records of that hash.
MoveAccountsForOne ==
  ScanReturned =>
    \A c \in Contents :
      Cardinality({x \in Vanished(scan_pre.repo, ScanTree, Blake2b(c)) :
                     ~Logged(ScanLog, Change("delete", Blake2b(c), x))})
        = Cardinality(Records(ScanLog, "move", Blake2b(c)))

\* position of the path p in the walk
Position(walk, p) == CHOOSE i \in 1..Len(walk) : walk[i] = p

\* deletes come last, the other records in the order of the walk
Ordered(log, walk) ==
  \A i, j \in 1..Len(log) :
    (i < j) =>
      /\ Command(log[i]) = "delete" => Command(log[j]) = "delete"
      /\ (Command(log[i]) # "delete" /\ Command(log[j]) # "delete") =>
           Position(walk, FileLoc(log[i])) < Position(walk, FileLoc(log[j]))

\* every update_status on repository R over the tree returns an ordered log
OrderedScans(R, tree) ==
  \A walk \in WalkOrders(tree) :
    LET r == update_status(R, tree, walk) IN (r.err = "") => Ordered(r.new_changes, walk)

\* C20 (emission order): from every state execute passes through, for either
\* repository and every order of the tree walk, the log update_status returns
\* holds its delete records after all others, and the others in the order in
\* which the walk met their paths.  (The states of the sleep are those of the
\* scan that follows it.)
EmissionOrder ==
  (pc # "sleep") => (OrderedScans(src_repo, src_tree) /\ OrderedScans(dest_repo, dest_tree))

\* a scan has returned a log with a delete record and two records of files
\* the walk met, one of them in the sub-directory
EmissionOrderWitness ==
  /\ ScanReturned
  /\ \E i, j, k \in 1..Len(ScanLog) :
       /\ i # j
       /\ Command(ScanLog[i]) # "delete" /\ Command(ScanLog[j]) # "delete"
       /\ FileLoc(ScanLog[j]) = "d/c"
       /\ Command(ScanLog[k]) = "delete"

\* the destination tree holds the files of the source tree
Mirrored == \A p \in Paths : dest_tree.files[p] = src_tree.files[p]

\* C12 (external drift during a cycle): at the end of a cycle in which nobody
\* wrote into the destination, whatever was written into it during earlier
\* cycles has been corrected: the destination tree equals the source tree.
RaceHealed ==
  (CycleEnd /\ cycle > 1 /\ drift = NoDrift) => Mirrored

\* C19 (deletion or relocation drift is reverted): at the end of the cycle
\* that follows the deletion or renaming of a tracked destination file, with
\* the source unchanged, the file is back at its path with the source's content.
LossReverted ==
  (CycleEnd /\ drift.tracked # {}) =>
    \A p \in drift.tracked : IsFile(dest_tree, p) /\ dest_tree.files[p] = src_tree.files[p]

\* the call r on repository R failed for a missing path, a missing hash or a
\* file missing from its bucket
FailedLookup(r) == r.err \in {"KeyError", "IndexError", "ValueError"}

\* the call r left the tree and both indices of R as they were
NothingDone(R, tree, r) ==
  /\ r.tree = tree
  /\ r.repo.filepath_file_map = R.filepath_file_map
  /\ r.repo.hash_file_map = R.hash_file_map

\* every failing modify_file, move_file, copy_file and delete_file on R
\* leaves the tree and the indices untouched
AtomicOnFailure(R, tree) ==
  \A p \in Paths, c \in Contents :
    /\ FailedLookup(modify_file(R, tree, p, c)) => NothingDone(R, tree, modify_file(R, tree, p, c))
    /\ FailedLookup(move_file(R, tree, Blake2b(c), p)) =>
         NothingDone(R, tree, move_file(R, tree, Blake2b(c), p))
    /\ FailedLookup(copy_file(R, tree, Blake2b(c), p)) =>
         NothingDone(R, tree, copy_file(R, tree, Blake2b(c), p))
    /\ FailedLookup(delete_file(R, tree, p)) => NothingDone(R, tree, delete_file(R, tree, p))

\* C22 (failure atomicity of primitives): in every state an operation or a
\* scan has left, a call of modify_file, move_file, copy_file or delete_file
\* that fails leaves the tree on disk, filepath_file_map and hash_file_map
\* exactly as they were before the call.
FailureAtomicity ==
  (pc # "crashed") =>
    (AtomicOnFailure(src_repo, src_tree) /\ AtomicOnFailure(dest_repo, dest_tree))

\* the file p lies in the directory d or in a sub-directory of it
Inside(p, d) == Dir(p) = d \/ ParentDir(Dir(p)) = d

\* C21 (prune): a call of prune leaves the directories that hold a file
\* somewhere beneath them and removes all others, removes every file on disk
\* whose path is not a key of filepath_file_map, and leaves the tracked files
\* and both indices unchanged.
PruneClean ==
  [][(pc = "replay" /\ pc' = "dest_scan") =>
       /\ dest_tree'.dirs = {d \in dest_tree.dirs : \E p \in Paths : IsFile(dest_tree, p) /\ Inside(p, d)}
       /\ dest_tree'.files = [p \in Paths |-> IF p \in Keys(dest_repo.filepath_file_map)
                                               THEN dest_tree.files[p] ELSE NoFile]
       /\ dest_repo'.filepath_file_map = dest_repo.filepath_file_map
       /\ dest_repo'.hash_file_map = dest_repo.hash_file_map]_vars

====
